---- MODULE Spec2Model ----
(***************************************************************************)
(* A model of src/src/lib.rs: an array-backed binary Merkle tree with      *)
(* inclusion proofs.                                                       *)
(*                                                                         *)
(* Bytes and digests.  A byte string is a sequence of symbols.  A symbol   *)
(* is either one raw byte, [b |-> k, h |-> <<>>] with k >= 0, or one       *)
(* SHA-256 digest, [b |-> -1, h |-> s], standing for the 32 bytes of the   *)
(* digest of the byte string s.  The digest is a free constructor, so the  *)
(* hash is collision-free, and hash_pair(l, r) is the digest of the        *)
(* two-symbol string <<l, r>>, i.e. of the 64-byte concatenation, which is *)
(* how the code computes it (two update calls on one hasher).              *)
(*                                                                         *)
(* Indices are 0-based as in the source; At(ns, i) reads ns at i.          *)
(***************************************************************************)
EXTENDS Integers, Sequences, FiniteSets

VARIABLES
    in_data,    \* the data argument of MerkleTree::new
    in_leaves,  \* the leaves argument of MerkleTree::new
    pc,         \* "start" | "idle" (built) | "walk" | "done" (the call returned) | "panic"
    nodes,      \* MerkleTree.nodes (the node values)
    leaves,     \* MerkleTree.leaves
    call,       \* the last operation called
    item,       \* the item argument of the last proof / verify_proof call
    idx,        \* the idx argument of the last path / proof call
    cidx,       \* path's local cidx
    hashes,     \* path's local hashes; after the return, the returned vector
    res,        \* the outcome of the last call
    proofArg,   \* the proof argument of the last verify_proof call
    flip        \* which entry of the returned proof had its flag flipped (0: none, -1: not a returned proof)

vars == <<in_data, in_leaves, pc, nodes, leaves, call, item, idx, cidx, hashes, res, proofArg, flip>>

\* ---------------------------------------------------------------- bounds
\* Longest input buffer, in bytes.
MaxLen == 6
\* Largest leaves argument.
MaxLeaves == 5
\* Most entries of a proof vector the model follows a walk for.
MaxWalk == 6
\* Longest proof handed to verify_proof that no call of proof() returned.
MaxForge == 1

\* ---------------------------------------------------------------- bytes
Byte(k) == [b |-> k, h |-> <<>>]

RawBytes == {Byte(0), Byte(1)}

\* All raw byte strings of length n.
RECURSIVE RawStrings(_)
RawStrings(n) ==
    IF n = 0 THEN {<<>>}
    ELSE {Append(s, x) : s \in RawStrings(n - 1), x \in RawBytes}

At(ns, i) == ns[i + 1]

\* ---------------------------------------------------------------- hashing
hash_data(data) == [b |-> -1, h |-> data]

hash_pair_swapped(left_data, right_data) == hash_data(<<right_data, left_data>>)

hash_pair(left_data, right_data) == hash_data(<<left_data, right_data>>)

as_leaf(data) == hash_data(data)

as_parent(left, right) == hash_pair(left, right)

\* ---------------------------------------------------------------- tree builder
\* data.chunks(chunk_size): consecutive slices of chunk_size bytes, the last
\* one shorter when the length is no multiple of chunk_size (chunk_size > 0).
RECURSIVE ChunksDropTail(_, _)
ChunksDropTail(data, chunk_size) ==
    IF Len(data) < chunk_size \/ data = <<>> THEN <<>>
    ELSE <<SubSeq(data, 1, chunk_size)>>
         \o ChunksDropTail(SubSeq(data, chunk_size + 1, Len(data)), chunk_size)

RECURSIVE Chunks(_, _)
Chunks(data, chunk_size) ==
    IF data = <<>> THEN <<>>
    ELSE IF Len(data) <= chunk_size THEN <<data>>
    ELSE <<SubSeq(data, 1, chunk_size)>>
         \o Chunks(SubSeq(data, chunk_size + 1, Len(data)), chunk_size)

\* .map(|chunk| Node::as_leaf(chunk)).collect()
LeafNodes(chunks) == [i \in 1..Len(chunks) |-> as_leaf(chunks[i])]

\* for idx in 0..(leaves - 1) { nodes.push(as_parent(&nodes[2*idx+1], &nodes[2*idx])) }
\* Both reads are in range: the vector holds at least n + i nodes at
\* iteration i < n - 1, and 2*i + 1 < n + i.
RECURSIVE BuildParentsFromLeft(_, _, _)
BuildParentsFromLeft(ns, i, n) ==
    IF i >= n - 1 THEN ns
    ELSE BuildParentsFromLeft(Append(ns, as_parent(At(ns, 2 * i), At(ns, 2 * i + 1))), i + 1, n)

RECURSIVE BuildParents(_, _, _)
BuildParents(ns, i, n) ==
    IF i >= n - 1 THEN ns
    ELSE BuildParents(Append(ns, as_parent(At(ns, 2 * i + 1), At(ns, 2 * i))), i + 1, n)

\* MerkleTree::new panics on leaves == 0 (division by zero) and on a
\* chunk size of 0 (slice::chunks requires a non-zero size).
NewPanics(data, n) == n = 0 \/ Len(data) \div n = 0

MerkleTree_new(data, n) ==
    LET chunk_size == Len(data) \div n
    IN  BuildParents(LeafNodes(Chunks(data, chunk_size)), 0, n)

\* ---------------------------------------------------------------- accessors
size == Len(nodes)

root_first == At(nodes, 0)

root == At(nodes, size - 1)

\* ---------------------------------------------------------------- index calculator
parent_idx_no_offset(i) == i \div 2 + leaves - 1

parent_idx(i) == i \div 2 + leaves

sibling_idx_next(i) == i + 1

sibling_idx(i) == IF i % 2 = 0 THEN i + 1 ELSE i - 1

left_idx(i) == 2 * (i - leaves) + 1

right_idx(i) == 2 * (i - leaves)

\* ---------------------------------------------------------------- verifier
\* One iteration of verify_proof's loop.
ReplayEntryIgnoringParity(candidate, e) == hash_pair(candidate, e.hash)

ReplayEntry(candidate, e) ==
    IF e.parity THEN hash_pair(candidate, e.hash)
    ELSE hash_pair(e.hash, candidate)

RECURSIVE Replay(_, _)
Replay(candidate, proof) ==
    IF proof = <<>> THEN candidate
    ELSE Replay(ReplayEntry(candidate, Head(proof)), Tail(proof))

verify_proof(it, rt, proof) == Replay(hash_data(it), proof) = rt

\* ---------------------------------------------------------------- inputs
\* The buffers handed to MerkleTree::new: every raw string of up to MaxLen bytes.
DataSet == UNION {RawStrings(n) : n \in 0..MaxLen}

\* The chunks of the input buffer, as a set.
ChunkSet ==
    LET cs == Chunks(in_data, Len(in_data) \div in_leaves)
    IN  {cs[i] : i \in 1..Len(cs)}

\* The 64-byte strings made of a stored node value followed by its sibling's.
PairItems ==
    {<<At(nodes, i), At(nodes, sibling_idx(i))>> :
        i \in {j \in 0..(size - 1) : sibling_idx(j) < size}}

\* The items handed to proof and verify_proof on a built tree: its chunks,
\* strings that are no chunk, and concatenations of stored digests.
Items == ChunkSet \cup {<<>>, <<Byte(0)>>, <<Byte(2)>>} \cup PairItems

ProofEntries == {[hash |-> At(nodes, i), parity |-> p] : i \in 0..(size - 1), p \in BOOLEAN}

RECURSIVE ProofsOfLen(_)
ProofsOfLen(n) ==
    IF n = 0 THEN {<<>>}
    ELSE {Append(p, e) : p \in ProofsOfLen(n - 1), e \in ProofEntries}

ForgedProofs == UNION {ProofsOfLen(n) : n \in 0..MaxForge}

\* The proof with the flag of entry k (1-based) flipped; k = 0 leaves it as it is.
FlipFlag(proof, k) ==
    [i \in 1..Len(proof) |->
        IF i = k THEN [hash |-> proof[i].hash, parity |-> ~proof[i].parity]
        ELSE proof[i]]

\* ---------------------------------------------------------------- state machine
\* The tree is never written after MerkleTree::new, so what a call does is
\* decided by the tree and the call's arguments alone: a behaviour builds one
\* tree and follows one call on it and, for a proof that proof() returned,
\* its verification.
Init ==
    /\ in_data \in DataSet
    /\ in_leaves \in 0..MaxLeaves
    /\ pc = "start"
    /\ nodes = <<>>
    /\ leaves = 0
    /\ call = "none"
    /\ item = <<>>
    /\ idx = 0
    /\ cidx = 0
    /\ hashes = <<>>
    /\ res = "none"
    /\ proofArg = <<>>
    /\ flip = -1

\* MerkleTree::new(data, leaves)
New ==
    /\ pc = "start"
    /\ call' = "new"
    /\ IF NewPanics(in_data, in_leaves)
       THEN /\ pc' = "panic"
            /\ res' = "panic"
            /\ UNCHANGED <<nodes, leaves>>
       ELSE /\ nodes' = MerkleTree_new(in_data, in_leaves)
            /\ leaves' = in_leaves
            /\ pc' = "idle"
            /\ res' = "ok"
    /\ UNCHANGED <<in_data, in_leaves, item, idx, cidx, hashes, proofArg, flip>>

\* path(idx): the entry into the walk loop.
PathCall(i) ==
    /\ pc = "idle"
    /\ call' = "path"
    /\ idx' = i
    /\ cidx' = i
    /\ hashes' = <<>>
    /\ pc' = "walk"
    /\ res' = "pending"
    /\ item' = <<>>
    /\ proofArg' = <<>>
    /\ flip' = -1
    /\ UNCHANGED <<in_data, in_leaves, nodes, leaves>>

\* The first operand of proof's guard.
idx_out_of_range_off_by_one(i) == i > size

idx_out_of_range(i) == i >= size

\* proof(item, idx): None, or Some(self.path(idx)).  The second operand of
\* the guard reads self.nodes[idx], which panics when idx is out of range.
ProofCall(it, i) ==
    /\ pc = "idle"
    /\ call' = "proof"
    /\ item' = it
    /\ idx' = i
    /\ cidx' = i
    /\ hashes' = <<>>
    /\ proofArg' = <<>>
    /\ flip' = -1
    /\ IF idx_out_of_range(i)
       THEN pc' = "done" /\ res' = "None"
       ELSE IF i >= size
       THEN pc' = "panic" /\ res' = "panic"
       ELSE IF hash_data(it) # At(nodes, i)
       THEN pc' = "done" /\ res' = "None"
       ELSE pc' = "walk" /\ res' = "pending"
    /\ UNCHANGED <<in_data, in_leaves, nodes, leaves>>

\* while cidx != self.size() - 1: the loop exit, path returns hashes.
WalkReturn ==
    /\ pc = "walk"
    /\ cidx = size - 1
    /\ pc' = "done"
    /\ res' = IF call = "proof" THEN "Some" ELSE "Vec"
    /\ UNCHANGED <<in_data, in_leaves, nodes, leaves, call, item, idx, cidx, hashes, proofArg, flip>>

\* self.nodes[self.sibling_idx(cidx)] with the sibling out of range.
WalkPanic ==
    /\ pc = "walk"
    /\ cidx # size - 1
    /\ sibling_idx(cidx) >= size
    /\ pc' = "panic"
    /\ res' = "panic"
    /\ UNCHANGED <<in_data, in_leaves, nodes, leaves, call, item, idx, cidx, hashes, proofArg, flip>>

\* One iteration of the walk loop.
WalkPush ==
    /\ pc = "walk"
    /\ cidx # size - 1
    /\ sibling_idx(cidx) < size
    /\ Len(hashes) < MaxWalk
    /\ hashes' = Append(hashes, [hash |-> At(nodes, sibling_idx(cidx)), parity |-> (cidx % 2) # 0])
    /\ cidx' = parent_idx(cidx)
    /\ UNCHANGED <<in_data, in_leaves, nodes, leaves, pc, call, item, idx, res, proofArg, flip>>

\* verify_proof(item, tree.root(), p) with p the proof that proof(item, idx)
\* just returned, as it is (k = 0) or with the flag of entry k flipped.
VerifyReturned(k) ==
    /\ pc = "done"
    /\ call = "proof"
    /\ res = "Some"
    /\ call' = "verify"
    /\ proofArg' = FlipFlag(hashes, k)
    /\ flip' = k
    /\ res' = IF verify_proof(item, root, FlipFlag(hashes, k)) THEN "true" ELSE "false"
    /\ UNCHANGED <<in_data, in_leaves, pc, nodes, leaves, item, idx, cidx, hashes>>

\* verify_proof(item, tree.root(), p) with any item and any proof.
VerifyAny(it, p) ==
    /\ pc = "idle"
    /\ call' = "verify"
    /\ item' = it
    /\ proofArg' = p
    /\ flip' = -1
    /\ idx' = 0
    /\ cidx' = 0
    /\ hashes' = <<>>
    /\ res' = IF verify_proof(it, root, p) THEN "true" ELSE "false"
    /\ pc' = "done"
    /\ UNCHANGED <<in_data, in_leaves, nodes, leaves>>

Next ==
    \/ New
    \/ pc = "idle" /\ \E i \in 0..(size + 2) : PathCall(i)
    \/ pc = "idle" /\ \E it \in Items, i \in 0..(size + 1) : ProofCall(it, i)
    \/ WalkReturn
    \/ WalkPanic
    \/ WalkPush
    \/ \E k \in 0..Len(hashes) : VerifyReturned(k)
    \/ pc = "idle" /\ \E it \in Items, p \in ForgedProofs : VerifyAny(it, p)

Spec == Init /\ [][Next]_vars

\* ---------------------------------------------------------------- preconditions
RECURSIVE IsPowerOfTwo(_)
IsPowerOfTwo(n) == n = 1 \/ (n > 1 /\ n % 2 = 0 /\ IsPowerOfTwo(n \div 2))

\* MerkleTree::new returned a tree.
Built == nodes # <<>>

\* MerkleTree::new has just returned a tree (no later call writes the tree).
JustBuilt == Built /\ call = "new"

\* len(data) is a non-zero exact multiple of leaves >= 1.
ExactMultiple ==
    /\ in_leaves >= 1
    /\ Len(in_data) > 0
    /\ Len(in_data) % in_leaves = 0

ValidInput == IsPowerOfTwo(in_leaves) /\ ExactMultiple

\* The i-th slice of chunkSize bytes of the input, by its byte positions.
SliceAt(i) ==
    LET chunk_size == Len(in_data) \div in_leaves
    IN  SubSeq(in_data, i * chunk_size + 1, (i + 1) * chunk_size)

\* The last proof call named a stored node and an item that hashes to it.
MatchingProofCall == call = "proof" /\ idx < size /\ hash_data(item) = At(nodes, idx)

\* A walk that is under way can take its next step, has not passed the root
\* and has pushed fewer entries than the tree has nodes.
WalkAdvancing ==
    pc = "walk" =>
        /\ cidx <= size - 1
        /\ Len(hashes) < size
        /\ cidx # size - 1 => (sibling_idx(cidx) < size /\ Len(hashes) < MaxWalk)

\* The index the walk from i is at after k iterations.
RECURSIVE WalkIdx(_, _)
WalkIdx(i, k) == IF k = 0 THEN i ELSE WalkIdx(i \div 2 + leaves, k - 1)

\* ---------------------------------------------------------------- claims

\* C1: round trip.  On a tree built from valid input (leaves a power of two,
\* len(data) a non-zero exact multiple of leaves), a call proof(item, idx)
\* with idx < size() and hash_data(item) == nodes[idx].value neither panics
\* nor returns None, its walk keeps advancing until it returns Some(p), and
\* verify_proof(item, tree.root(), p) is true.
C1_RoundTrip ==
    (Built /\ ValidInput) =>
        /\ MatchingProofCall =>
              /\ pc \in {"walk", "done"}
              /\ WalkAdvancing
              /\ pc = "done" => res = "Some"
        /\ (call = "verify" /\ flip = 0) => res = "true"

C1_Witness ==
    /\ ValidInput
    /\ call = "verify"
    /\ flip = 0
    /\ res = "true"
    /\ Len(proofArg) = 2
    /\ idx = 2

\* C2: inclusion soundness.  On a tree built from valid input, whatever the
\* item and the proof, verify_proof(item, tree.root(), p) == true implies
\* that item is one of the leaf chunks.
C2_InclusionSoundness ==
    (Built /\ ValidInput /\ call = "verify" /\ res = "true") => item \in ChunkSet

\* C3: the node array equals the reference construction.  On valid input,
\* nodes[i] == hash_data(chunk_i) for i in [0, leaves), chunk_i the i-th
\* slice of len(data)/leaves bytes, nodes[leaves + i] ==
\* hash_pair(nodes[2*i+1], nodes[2*i]) for i in [0, leaves - 1), and nodes[idx]
\* == hash_pair(nodes[left_idx(idx)], nodes[right_idx(idx)]) for every
\* internal idx in [leaves, size()).
C3_ReferenceConstruction ==
    (JustBuilt /\ ValidInput) =>
        /\ \A i \in 0..(in_leaves - 1) : At(nodes, i) = hash_data(SliceAt(i))
        /\ \A i \in 0..(in_leaves - 2) :
              At(nodes, in_leaves + i) = hash_data(<<At(nodes, 2 * i + 1), At(nodes, 2 * i)>>)
        /\ \A j \in leaves..(size - 1) :
              At(nodes, j) = hash_data(<<At(nodes, left_idx(j)), At(nodes, right_idx(j))>>)

C3_Witness ==
    /\ JustBuilt
    /\ ValidInput
    /\ in_leaves = 4
    /\ size = 7
    /\ At(nodes, 0) # At(nodes, 1)
    /\ At(nodes, 4) # At(nodes, 5)

\* C4 as stated: on valid input every internal node i is the pair hash with
\* the right child (flat index 2*(i - leaves)) as first operand and the left
\* child (flat index 2*(i - leaves) + 1) as second operand.
C4_RightChildFirst ==
    (JustBuilt /\ ValidInput) =>
        \A i \in leaves..(size - 1) :
            At(nodes, i) = hash_data(<<At(nodes, right_idx(i)), At(nodes, left_idx(i))>>)

\* C4 as amended: on valid input every internal node i is the pair hash with
\* the left child (flat index left_idx(i) = 2*(i - leaves) + 1) as first
\* operand and the right child (flat index right_idx(i) = 2*(i - leaves)) as
\* second operand; it equals the pair hash in the other order exactly when
\* both children hold the same hash.
C4_LeftChildFirst ==
    (JustBuilt /\ ValidInput) =>
        \A i \in leaves..(size - 1) :
            /\ left_idx(i) = 2 * (i - leaves) + 1
            /\ right_idx(i) = 2 * (i - leaves)
            /\ At(nodes, i) = hash_data(<<At(nodes, 2 * (i - leaves) + 1), At(nodes, 2 * (i - leaves))>>)
            /\ (At(nodes, i) = hash_data(<<At(nodes, 2 * (i - leaves)), At(nodes, 2 * (i - leaves) + 1)>>))
                  <=> (At(nodes, 2 * (i - leaves)) = At(nodes, 2 * (i - leaves) + 1))

C4_Witness ==
    /\ JustBuilt
    /\ ValidInput
    /\ in_leaves = 2
    /\ size = 3
    /\ At(nodes, 0) # At(nodes, 1)

\* C5: negative lookups are ordinary results.  On any built tree
\* proof(item, idx) returns None, without panicking, for every idx >= size()
\* and for every leaf position idx < leaves whose stored hash differs from
\* hash_data(item); it returns Some only when idx < size() and
\* hash_data(item) == nodes[idx].value.
C5_NegativeLookups ==
    (Built /\ call = "proof") =>
        /\ idx >= size => (res = "None" /\ pc = "done")
        /\ (idx < size /\ idx < leaves /\ At(nodes, idx) # hash_data(item))
              => (res = "None" /\ pc = "done")
        /\ res = "Some" => (idx < size /\ hash_data(item) = At(nodes, idx))

C5_Witness ==
    /\ Built
    /\ call = "proof"
    /\ idx = size
    /\ res = "None"
    /\ item \in ChunkSet

\* C6 as stated: on a tree built from valid input, for a leaf idx and the
\* proof p that proof(chunk_idx, idx) returned, p with the flag of any single
\* entry flipped is rejected by verify_proof(chunk_idx, tree.root(), p').
C6_AnyFlipRejected ==
    (Built /\ ValidInput /\ call = "verify" /\ flip >= 1 /\ idx < leaves)
        => res = "false"

\* C6 as amended: p with the flag of entry k flipped is rejected exactly when
\* the node the walk is at when it pushes entry k and that node's sibling
\* hold different hashes; when the two hashes are equal (two equal adjacent
\* chunks, for one) the flipped proof replays the same hash and is accepted.
C6_FlipRejectedIffSiblingDiffers ==
    (Built /\ ValidInput /\ call = "verify" /\ flip >= 1 /\ idx < leaves) =>
        LET c == WalkIdx(idx, flip - 1)
        IN  (res = "false") <=> (At(nodes, c) # At(nodes, sibling_idx(c)))

C6_Witness ==
    /\ Built
    /\ ValidInput
    /\ call = "verify"
    /\ flip = 2
    /\ idx < leaves
    /\ res = "false"
    /\ item = SliceAt(idx)

\* C7: for leaves a power of two and data an exact multiple of leaves (at
\* least leaves bytes), MerkleTree::new returns a tree with size() ==
\* 2*leaves - 1 and leaves() == leaves, and root() is the node at index
\* size() - 1.
C7_SizeLeavesRoot ==
    (call = "new" /\ ValidInput) =>
        /\ Built
        /\ size = 2 * in_leaves - 1
        /\ leaves = in_leaves
        /\ root = nodes[2 * in_leaves - 1]

C7_Witness ==
    /\ JustBuilt
    /\ ValidInput
    /\ in_leaves = 4
    /\ size = 7
    /\ root # At(nodes, 0)

\* C8 as stated: for every leaves >= 1 and every data with len(data) >=
\* leaves, multiple of leaves or not, MerkleTree::new hashes exactly leaves
\* chunks of len(data)/leaves bytes, so exactly the indices [0, leaves) hold
\* leaf hashes (the others hold pair hashes) and size() == 2*leaves - 1.
C8_RemainderDropped ==
    (JustBuilt /\ in_leaves >= 1 /\ Len(in_data) >= in_leaves) =>
        /\ size = 2 * in_leaves - 1
        /\ \A i \in 0..(in_leaves - 1) : At(nodes, i) = hash_data(SliceAt(i))
        /\ \A i \in in_leaves..(size - 1) :
              At(nodes, i) = hash_data(<<At(nodes, 2 * (i - in_leaves) + 1), At(nodes, 2 * (i - in_leaves))>>)

\* C8 as amended: with chunkSize = len(data)/leaves and n =
\* ceil(len(data)/chunkSize), MerkleTree::new hashes n chunks: slices of
\* chunkSize bytes and, when chunkSize does not divide len(data), one shorter
\* last chunk that holds the remaining bytes.  The indices [0, n) hold the
\* leaf hashes, leaves - 1 pair hashes follow, size() == n + leaves - 1, and
\* that is 2*leaves - 1 exactly when len(data) is a multiple of leaves.
C8_RemainderChunked ==
    (JustBuilt /\ in_leaves >= 1 /\ Len(in_data) >= in_leaves) =>
        LET len == Len(in_data)
            chunk_size == len \div in_leaves
            n == (len + chunk_size - 1) \div chunk_size
        IN  /\ size = n + in_leaves - 1
            /\ \A i \in 0..(n - 1) :
                  At(nodes, i) =
                      hash_data(SubSeq(in_data, i * chunk_size + 1,
                                       IF (i + 1) * chunk_size < len THEN (i + 1) * chunk_size ELSE len))
            /\ \A i \in 0..(in_leaves - 2) :
                  At(nodes, n + i) = hash_data(<<At(nodes, 2 * i + 1), At(nodes, 2 * i)>>)
            /\ (size = 2 * in_leaves - 1) <=> (len % in_leaves = 0)

C8_Witness ==
    /\ JustBuilt
    /\ in_leaves = 2
    /\ Len(in_data) = 5
    /\ size = 4
    /\ At(nodes, 2) = hash_data(<<in_data[5]>>)

\* C9: on a tree built from valid input, the walk loop of path(idx) ends
\* after finitely many iterations for every idx.  An iteration is decided by
\* cidx and the tree, which never changes, and parent_idx never decreases as
\* cidx grows, so the loop ends if and only if no iteration leaves cidx where
\* it was: that is the statement here.
C9_WalkTerminates ==
    [][(Built /\ ValidInput /\ pc = "walk" /\ pc' = "walk") => cidx' # cidx]_vars

\* C10: the construction and the index formulas agree for every leaf count.
\* For every leaves >= 1 and data whose length is a non-zero exact multiple
\* of leaves, the tree has 2*leaves - 1 nodes, every idx < size() - 1 has
\* parent_idx(idx) in [leaves, size()) with parent_idx(idx) > idx and
\* {left_idx(parent_idx(idx)), right_idx(parent_idx(idx))} == {idx,
\* sibling_idx(idx)}, and for every leaf idx the call proof(chunk_idx, idx)
\* returns a proof that verify_proof accepts against root().
C10_AnyLeafCount ==
    (Built /\ ExactMultiple) =>
        /\ call = "new" =>
              /\ size = 2 * leaves - 1
              /\ \A i \in 0..(size - 2) :
                    /\ parent_idx(i) \in leaves..(size - 1)
                    /\ parent_idx(i) > i
                    /\ {left_idx(parent_idx(i)), right_idx(parent_idx(i))} = {i, sibling_idx(i)}
        /\ (call = "proof" /\ idx < leaves /\ item = SliceAt(idx)) =>
              /\ pc \in {"walk", "done"}
              /\ WalkAdvancing
              /\ pc = "done" => res = "Some"
        /\ (call = "verify" /\ flip = 0 /\ idx < leaves) => res = "true"

C10_Witness ==
    /\ Built
    /\ ExactMultiple
    /\ in_leaves = 3
    /\ call = "verify"
    /\ flip = 0
    /\ idx = 0
    /\ Len(proofArg) = 2
    /\ res = "true"

====
